---------------------------- MODULE Spec2Model ----------------------------
(***************************************************************************)
(* Model of server/scripts/discover_api.py: discover_endpoints() walks a   *)
(* list of HuggingFace space identifiers; for each one it prints a header, *)
(* constructs a gradio Client, prints what client.view_api() returns, and  *)
(* on any Exception prints one "Failed to connect to ..." line instead.    *)
(*                                                                         *)
(* Standard output is modelled as the sequence of text fragments written   *)
(* to it, a line break being the fragment "\n".  Python objects are        *)
(* records [type, val].  Client(...) and view_api() belong to the external *)
(* gradio_client library: each call nondeterministically returns or raises *)
(* an instance of a subclass of Exception, and writes nothing itself.      *)
(* Standard output accepts every write.                                    *)
(***************************************************************************)
EXTENDS Integers, Sequences, FiniteSets

VARIABLES
    config,      \* the list literal of lines 9-12, taken as configuration
    run,         \* which execution of the script this is (1 or 2)
    pc,          \* position of the interpreter in the script
    spaces,      \* local `spaces` of discover_endpoints
    idx,         \* how many elements the for-loop iterator has yielded
    space,       \* loop variable `space`
    client,      \* local `client`
    ret,         \* value of client.view_api(), about to be printed
    exc,         \* exception in flight / bound to `e`
    stdout,      \* fragments written to standard output, in order
    exitCode,    \* exit status of the process, -1 while it runs
    calls,       \* history: the calls made to gradio_client, in order
    prevStdout,  \* history: stdout of the previous execution
    prevCalls    \* history: calls of the previous execution

vars == <<config, run, pc, spaces, idx, space, client, ret, exc, stdout,
          exitCode, calls, prevStdout, prevCalls>>

---------------------------------------------------------------------------
(* Bounds and input domains *)

MaxLen == 3

MaxLenTwoRuns == 2

SPACES == <<"innoai/Edge-TTS-Text-to-Speech", "k2-fsa/text-to-speech">>

Ids == {SPACES[k] : k \in 1..Len(SPACES)}

SeqsUpTo(S, n) == UNION {[1..m -> S] : m \in 0..n}

None == [type |-> "NoneType", val |-> ""]

\* what view_api() may hand back: a text, or None
ApiValues == {[type |-> "str", val |-> "Named API endpoints: 1"], None}

\* subclasses of Exception that the library may raise
Failures == {[type |-> "ConnectionError", val |-> "timed out"],
             [type |-> "ValueError", val |-> "Could not fetch config"]}

ExceptionSubclasses == {"Exception", "ConnectionError", "ValueError"}

---------------------------------------------------------------------------
(* Text produced by the script *)

\* '='*60
Separator == "============================================================"

Label == "Discovering endpoints for: "

ErrorPrefix == "Failed to connect to "

\* str(v), as print() and f-strings apply it: a str is itself, None is
\* "None", an exception is its message
PyStr_Repr(v) ==
    CASE v.type = "NoneType" -> "None"
      [] v.type = "str" -> "'" \o v.val \o "'"
      [] OTHER -> v.val
PyStr(v) == IF v.type = "NoneType" THEN "None" ELSE v.val

\* print(*fragments): the fragments, then a line break
print(fragments) == fragments \o <<"\n">>

\* lines 16-18
HeaderText_NoClosingSeparator(s) ==
    print(<<"\n", Separator>>) \o print(<<Label, s>>)
HeaderText_Stamped(s) ==
    print(<<"\n", Separator>>) \o print(<<Label, s>>)
        \o print(<<IF run = 1 THEN Separator ELSE "=">>)
HeaderText(s) ==
    print(<<"\n", Separator>>) \o print(<<Label, s>>) \o print(<<Separator>>)

\* line 24
ErrorText(s, e) == print(<<ErrorPrefix, s, ": ", PyStr(e)>>)

\* line 23: `except Exception`
Catches_OnlyConnectionError(e) == e.type = "ConnectionError"
Catches(e) == e.type \in ExceptionSubclasses

---------------------------------------------------------------------------
(* Initial states *)

InitWith(n) ==
    /\ config \in SeqsUpTo(Ids, n)
    /\ run = 1
    /\ pc = "start"
    /\ spaces = <<>>
    /\ idx = 0
    /\ space = None
    /\ client = None
    /\ ret = None
    /\ exc = None
    /\ stdout = <<>>
    /\ exitCode = -1
    /\ calls = <<>>
    /\ prevStdout = <<>>
    /\ prevCalls = <<>>

Init == InitWith(MaxLen)

InitTwoRuns == InitWith(MaxLenTwoRuns)

---------------------------------------------------------------------------
(* Steps of the script *)

hist == <<run, prevStdout, prevCalls>>

\* lines 26-27, 8-12: the script is run, discover_endpoints() builds the list
Main ==
    /\ pc = "start"
    /\ spaces' = config
    /\ idx' = 0
    /\ pc' = "for"
    /\ UNCHANGED <<config, space, client, ret, exc, stdout, exitCode, calls, hist>>

\* line 14: the iterator yields the next identifier
ForNext ==
    /\ pc = "for"
    /\ idx < Len(spaces)
    /\ idx' = idx + 1
    /\ space' = [type |-> "str", val |-> spaces[idx + 1]]
    /\ pc' = "try"
    /\ UNCHANGED <<config, spaces, client, ret, exc, stdout, exitCode, calls, hist>>

\* line 14, iterator exhausted: the function returns and the script ends
Return_Summary ==
    /\ pc = "for"
    /\ idx >= Len(spaces)
    /\ stdout' = stdout \o print(<<Separator>>)
    /\ pc' = "done"
    /\ exitCode' = 0
    /\ UNCHANGED <<config, spaces, idx, space, client, ret, exc, calls, hist>>
Return ==
    /\ pc = "for"
    /\ idx >= Len(spaces)
    /\ pc' = "done"
    /\ exitCode' = 0
    /\ UNCHANGED <<config, spaces, idx, space, client, ret, exc, stdout, calls, hist>>

\* lines 16-18
PrintHeader ==
    /\ pc = "try"
    /\ stdout' = stdout \o HeaderText(PyStr(space))
    /\ pc' = "connect"
    /\ UNCHANGED <<config, spaces, idx, space, client, ret, exc, exitCode, calls, hist>>

Call(op, raised, v) == [op |-> op, pos |-> idx, raised |-> raised, val |-> v]

\* line 20: client = Client(space)
Connect ==
    /\ pc = "connect"
    /\ \/ /\ client' = [type |-> "Client", val |-> PyStr(space)]
          /\ calls' = Append(calls, Call("Client", FALSE, client'))
          /\ pc' = "view_api"
          /\ exc' = exc
       \/ \E e \in Failures :
              /\ exc' = e
              /\ calls' = Append(calls, Call("Client", TRUE, e))
              /\ pc' = "except"
              /\ client' = client
    /\ UNCHANGED <<config, spaces, idx, space, ret, stdout, exitCode, hist>>

\* line 21: the call client.view_api()
ViewApi_OutsideTry ==
    /\ pc = "view_api"
    /\ \/ \E v \in ApiValues :
              /\ ret' = v
              /\ calls' = Append(calls, Call("view_api", FALSE, v))
              /\ pc' = "print_api"
              /\ UNCHANGED <<exc, exitCode>>
       \/ \E e \in Failures :
              /\ exc' = e
              /\ calls' = Append(calls, Call("view_api", TRUE, e))
              /\ pc' = "raised"
              /\ exitCode' = 1
              /\ ret' = ret
    /\ UNCHANGED <<config, spaces, idx, space, client, stdout, hist>>
ViewApi ==
    /\ pc = "view_api"
    /\ \/ \E v \in ApiValues :
              /\ ret' = v
              /\ calls' = Append(calls, Call("view_api", FALSE, v))
              /\ pc' = "print_api"
              /\ exc' = exc
       \/ \E e \in Failures :
              /\ exc' = e
              /\ calls' = Append(calls, Call("view_api", TRUE, e))
              /\ pc' = "except"
              /\ ret' = ret
    /\ UNCHANGED <<config, spaces, idx, space, client, stdout, exitCode, hist>>

\* line 21: print(...) of the value returned
PrintApi_Nothing ==
    /\ pc = "print_api"
    /\ pc' = "for"
    /\ UNCHANGED <<config, spaces, idx, space, client, ret, exc, stdout, exitCode, calls, hist>>
PrintApi ==
    /\ pc = "print_api"
    /\ stdout' = stdout \o print(<<PyStr(ret)>>)
    /\ pc' = "for"
    /\ UNCHANGED <<config, spaces, idx, space, client, ret, exc, exitCode, calls, hist>>

\* lines 23-24: the handler; an exception it does not catch leaves the
\* function and ends the process with a traceback and status 1
Except_Break ==
    /\ pc = "except"
    /\ stdout' = stdout \o ErrorText(PyStr(space), exc)
    /\ exc' = None
    /\ pc' = "done"
    /\ exitCode' = 0
    /\ UNCHANGED <<config, spaces, idx, space, client, ret, calls, hist>>
Except_Retry ==
    /\ pc = "except"
    /\ stdout' = stdout \o ErrorText(PyStr(space), exc)
    /\ exc' = None
    /\ pc' = "connect"
    /\ UNCHANGED <<config, spaces, idx, space, client, ret, exitCode, calls, hist>>
Except_ThenPrintStale ==
    /\ pc = "except"
    /\ stdout' = stdout \o ErrorText(PyStr(space), exc) \o print(<<PyStr(ret)>>)
    /\ exc' = None
    /\ pc' = "for"
    /\ UNCHANGED <<config, spaces, idx, space, client, ret, exitCode, calls, hist>>
Except_Silent ==
    /\ pc = "except"
    /\ exc' = None
    /\ pc' = "for"
    /\ UNCHANGED <<config, spaces, idx, space, client, ret, stdout, exitCode, calls, hist>>
Except ==
    /\ pc = "except"
    /\ IF Catches(exc)
       THEN /\ stdout' = stdout \o ErrorText(PyStr(space), exc)
            /\ exc' = None
            /\ pc' = "for"
            /\ exitCode' = exitCode
       ELSE /\ pc' = "raised"
            /\ exitCode' = 1
            /\ UNCHANGED <<stdout, exc>>
    /\ UNCHANGED <<config, spaces, idx, space, client, ret, calls, hist>>

Next == Main \/ ForNext \/ Return \/ PrintHeader \/ Connect \/ ViewApi
            \/ PrintApi \/ Except

Spec == Init /\ [][Next]_vars

\* every step of the script is eventually taken: the interpreter does not
\* stop by itself and each library call returns or raises
FairSpec == Spec /\ WF_vars(Next)

\* the script is run a second time, in a fresh process
Rerun ==
    /\ pc = "done"
    /\ run = 1
    /\ run' = 2
    /\ prevStdout' = stdout
    /\ prevCalls' = calls
    /\ pc' = "start"
    /\ spaces' = <<>>
    /\ idx' = 0
    /\ space' = None
    /\ client' = None
    /\ ret' = None
    /\ exc' = None
    /\ stdout' = <<>>
    /\ exitCode' = -1
    /\ calls' = <<>>
    /\ UNCHANGED config

NextTwoRuns == Next \/ Rerun

SpecTwoRuns == InitTwoRuns /\ [][NextTwoRuns]_vars

---------------------------------------------------------------------------
(* Reading the transcript and the call history *)

LabelPositions(out) == {p \in 1..Len(out) : out[p] = Label}

\* the sections of a transcript: each runs from the blank line opening a
\* header up to the next header, or to the end of the transcript
Sections(out) ==
    LET L == LabelPositions(out)
        n == Cardinality(L)
        at == [k \in 1..n |-> CHOOSE p \in L : Cardinality({q \in L : q < p}) = k - 1]
    IN  [k \in 1..n |->
            SubSeq(out, at[k] - 3, IF k < n THEN at[k + 1] - 4 ELSE Len(out))]

\* the k-th section, empty when there is none
Sec(secs, k) == IF k \in 1..Len(secs) THEN secs[k] ELSE <<>>

Count(out, token) == Cardinality({p \in 1..Len(out) : out[p] = token})

ExpectedHeader(s) == <<"\n", Separator, "\n", Label, s, "\n", Separator, "\n">>

ExpectedError(s, e) == <<ErrorPrefix, s, ": ", e.val, "\n">>

ExpectedSchema(v) == <<IF v.type = "NoneType" THEN "None" ELSE v.val, "\n">>

HasHeader(sec, s) == Len(sec) >= 8 /\ SubSeq(sec, 1, 8) = ExpectedHeader(s)

Body(sec) == SubSeq(sec, 9, Len(sec))

CallsAt(log, op, k) == {n \in 1..Len(log) : log[n].op = op /\ log[n].pos = k}

Raised(log, op, k, e) ==
    \E n \in CallsAt(log, op, k) : log[n].raised /\ log[n].val = e

Returned(log, op, k, v) ==
    \E n \in CallsAt(log, op, k) : ~log[n].raised /\ log[n].val = v

ReturnedAny(log, op, k) == \E n \in CallsAt(log, op, k) : ~log[n].raised

RaisedAny(log, op, k) == \E n \in CallsAt(log, op, k) : log[n].raised

\* what the remote service at position k did in a run
Outcome(log, k) ==
    {<<log[n].op, log[n].raised, log[n].val>> :
        n \in CallsAt(log, "Client", k) \cup CallsAt(log, "view_api", k)}

Positions == 1..Len(config)

\* iteration k is over: its schema block or error line has been written
Finished(k) == k < idx \/ (k = idx /\ pc \in {"for", "done"})

Done == pc = "done"

---------------------------------------------------------------------------
(* Claims *)

\* C1: one labeled section (separator, 'Discovering endpoints for: <id>',
\* separator) per identifier, the sections in the order of the list, whatever
\* the connect/describe outcomes: the sections written so far are headed by
\* the first identifiers of the list, in order, each label between two
\* separators, no other separator is written, and at the end there is one
\* section for every identifier.
C1_OneSectionPerIdentifierInOrder ==
    LET S == Sections(stdout) IN
    /\ Len(S) <= Len(config)
    /\ \A k \in 1..Len(S) : HasHeader(S[k], config[k])
    /\ Count(stdout, Separator) = 2 * Len(S)
    /\ Done => Len(S) = Len(config)

C1_Witness ==
    /\ Done
    /\ Len(config) = 3
    /\ config[1] # config[2]
    /\ RaisedAny(calls, "Client", 1)
    /\ RaisedAny(calls, "view_api", 2)
    /\ ReturnedAny(calls, "view_api", 3)
    /\ Len(Sections(stdout)) = 3

\* C2: if Client(space) raises for an identifier, its section holds the error
\* line naming that identifier and the failure detail, the failure is caught,
\* and every later identifier is still processed.
C2_ConnectFailureReportedAndLoopContinues ==
    LET S == Sections(stdout) IN
    \A k \in Positions : \A e \in Failures :
        Raised(calls, "Client", k, e) =>
            /\ pc # "raised"
            /\ Finished(k) => Body(Sec(S, k)) = ExpectedError(config[k], e)
            /\ Done => \A j \in Positions :
                           j > k => /\ CallsAt(calls, "Client", j) # {}
                                    /\ HasHeader(Sec(S, j), config[j])

\* the scenario of the specification: [A, B], A fails, B succeeds
C2_Witness ==
    LET S == Sections(stdout) IN
    /\ Done
    /\ Len(config) = 2
    /\ config[1] # config[2]
    /\ RaisedAny(calls, "Client", 1)
    /\ ReturnedAny(calls, "view_api", 2)
    /\ \E e \in Failures : Body(Sec(S, 1)) = ExpectedError(config[1], e)
    /\ \E v \in ApiValues : Body(Sec(S, 2)) = ExpectedSchema(v)

\* C3: if Client(space) and view_api() both succeed for an identifier, its
\* section holds the text view_api() returned, unmodified, and no error line.
C3_SchemaPrintedVerbatim ==
    LET S == Sections(stdout) IN
    \A k \in Positions : \A v \in ApiValues :
        (ReturnedAny(calls, "Client", k) /\ Returned(calls, "view_api", k, v)
            /\ Finished(k)) =>
                /\ Body(Sec(S, k)) = ExpectedSchema(v)
                /\ Count(Sec(S, k), ErrorPrefix) = 0

C3_Witness ==
    /\ Done
    /\ \E k \in Positions :
           /\ Returned(calls, "view_api", k, [type |-> "str", val |-> "Named API endpoints: 1"])
           /\ Body(Sec(Sections(stdout), k)) = <<"Named API endpoints: 1", "\n">>

\* C4: the process always ends normally, with exit code 0, after the last
\* identifier has been processed, whatever fails; no failure leaves
\* discover_endpoints.
C4_AlwaysExitsNormally ==
    /\ [](pc # "raised" /\ exitCode \in {-1, 0})
    /\ <>(Done /\ exitCode = 0 /\ idx = Len(config))

\* every identifier failed
C4_Witness ==
    /\ Done
    /\ exitCode = 0
    /\ Len(config) >= 2
    /\ \A k \in Positions :
           RaisedAny(calls, "Client", k) \/ RaisedAny(calls, "view_api", k)
    /\ RaisedAny(calls, "Client", 1)
    /\ RaisedAny(calls, "view_api", 2)

\* C5: a failure of view_api() after a successful Client(space) is handled
\* like a connection failure: caught, one error line naming the identifier
\* and the detail, no schema text, and the loop goes on.
C5_DescribeFailureHandledLikeConnectFailure ==
    LET S == Sections(stdout) IN
    \A k \in Positions : \A e \in Failures :
        Raised(calls, "view_api", k, e) =>
            /\ pc # "raised"
            /\ Finished(k) => Body(Sec(S, k)) = ExpectedError(config[k], e)
            /\ Done => \A j \in Positions :
                           j > k => /\ CallsAt(calls, "Client", j) # {}
                                    /\ HasHeader(Sec(S, j), config[j])

C5_Witness ==
    /\ Done
    /\ Len(config) >= 2
    /\ ReturnedAny(calls, "Client", 1)
    /\ \E e \in Failures :
           /\ Raised(calls, "view_api", 1, e)
           /\ Body(Sec(Sections(stdout), 1)) = ExpectedError(config[1], e)
    /\ CallsAt(calls, "Client", 2) # {}

\* C6: no retry and no abort: every identifier gets exactly one connection
\* attempt and at most one schema retrieval, none when its connection failed.
C6_OneAttemptPerIdentifier ==
    /\ \A n \in 1..Len(calls) : calls[n].pos \in Positions
    /\ \A k \in Positions :
           /\ Cardinality(CallsAt(calls, "Client", k)) <= 1
           /\ Cardinality(CallsAt(calls, "view_api", k)) <= 1
           /\ RaisedAny(calls, "Client", k) => CallsAt(calls, "view_api", k) = {}
           /\ CallsAt(calls, "view_api", k) # {} => ReturnedAny(calls, "Client", k)
           /\ Finished(k) => Cardinality(CallsAt(calls, "Client", k)) = 1
    /\ Done => idx = Len(config)

C6_Witness ==
    /\ Done
    /\ Len(config) = 3
    /\ RaisedAny(calls, "Client", 1)
    /\ Len(calls) = 5

\* C7: for two runs over the same list whose outcomes differ only for the
\* identifier at position j, the section of every other identifier is the
\* same in both runs.
C7_SectionsIndependent ==
    LET S == Sections(stdout)
        P == Sections(prevStdout)
    IN  (run = 2 /\ Done) =>
            \A j \in Positions :
                (\A i \in Positions \ {j} : Outcome(prevCalls, i) = Outcome(calls, i))
                    => \A i \in Positions \ {j} : Sec(P, i) = Sec(S, i)

C7_Witness ==
    LET S == Sections(stdout)
        P == Sections(prevStdout)
    IN  /\ run = 2
        /\ Done
        /\ Len(config) = 2
        /\ Outcome(prevCalls, 1) # Outcome(calls, 1)
        /\ Outcome(prevCalls, 2) = Outcome(calls, 2)
        /\ Sec(P, 1) # Sec(S, 1)
        /\ Sec(P, 2) = Sec(S, 2)
        /\ Sec(S, 2) # <<>>

\* C8: two runs in which every identifier has the same connect outcome and
\* the same schema text or failure detail write the same transcript.
C8_SameOutcomesSameTranscript ==
    (run = 2 /\ Done /\ \A i \in Positions : Outcome(prevCalls, i) = Outcome(calls, i))
        => stdout = prevStdout

C8_Witness ==
    /\ run = 2
    /\ Done
    /\ Len(config) = 2
    /\ \A i \in Positions : Outcome(prevCalls, i) = Outcome(calls, i)
    /\ RaisedAny(calls, "Client", 1)
    /\ ReturnedAny(calls, "view_api", 2)
    /\ stdout = prevStdout
    /\ stdout # <<>>

\* C9: with an empty list there is no connection attempt and no output, and
\* the run ends normally.
C9_EmptyListNoOutput ==
    config = <<>> =>
        /\ stdout = <<>>
        /\ calls = <<>>
        /\ pc \in {"start", "for", "done"}
        /\ Done => exitCode = 0
        /\ ~Done => ENABLED Next

C9_Witness == config = <<>> /\ Done /\ exitCode = 0

IsSchemaBlock(b) == \E v \in ApiValues : b = ExpectedSchema(v)

IsErrorLine(b, s) == \E e \in Failures : b = ExpectedError(s, e)

\* C10: a finished iteration has written its header followed by exactly one
\* of a schema block or an error line; every section but the last is that of
\* a finished iteration, so a header is written only after the previous
\* identifier's block; at the end every identifier has such a section.
C10_EachSectionHeaderThenOneBlock ==
    LET S == Sections(stdout) IN
    /\ \A k \in 1..Len(S) :
           (k < Len(S) \/ pc \in {"for", "done"}) =>
               /\ HasHeader(S[k], config[k])
               /\ IsSchemaBlock(Body(S[k])) # IsErrorLine(Body(S[k]), config[k])
    /\ \A k \in Positions : Finished(k) => k <= Len(S)
    /\ Done => Len(S) = Len(config)

\* the second header is out, the first identifier's block is before it
C10_Witness ==
    LET S == Sections(stdout) IN
    /\ pc = "connect"
    /\ idx = 2
    /\ Len(S) = 2
    /\ IsErrorLine(Body(S[1]), config[1])
    /\ Body(S[2]) = <<>>

===========================================================================
